---- MODULE Spec2Model ----
(***************************************************************************)
(* A model of the betsi translation Transformer: the dataset adapter       *)
(* (src/dataset.py: BilingualDataset, causal_mask), the masked scaled      *)
(* dot-product attention and the construction of the model (src/model.py). *)
(*                                                                         *)
(* Tensors are sequences, indexed from 1: position p of the code (from 0)  *)
(* is index p + 1 here.  A tensor of shape (1, n, n) is a sequence of one  *)
(* sequence of n rows of n entries.                                        *)
(***************************************************************************)
EXTENDS Integers, Sequences, FiniteSets, TLC

VARIABLES
    seq_len,      \* BilingualDataset.seq_len
    dataset,      \* BilingualDataset.dataset: per index, the ids the tokenizers yield
    sos_token,    \* BilingualDataset.sos_token
    eos_token,    \* BilingualDataset.eos_token
    pad_token,    \* BilingualDataset.pad_token
    item,         \* the outcome of the last BilingualDataset.__getitem__
    masks,        \* the outcomes of the calls of causal_mask made so far
    qkv,          \* the query, key and value tensors handed to attention
    attn,         \* the outcome of the last MultiHeadAttentionBlock.attention
    build,        \* the construction in progress (MultiHeadAttentionBlock, build_transformer)
    pos,          \* a PositionalEncoding and the outcome of its last forward
    mha,          \* a MultiHeadAttentionBlock and the outcome of its last forward
    fresh,        \* history: the adapter as constructed and what each index returns from it
    calls         \* history: the first MaxGetItems calls of __getitem__ with their outcomes

adapter == <<seq_len, dataset, sos_token, eos_token, pad_token>>
vars == <<seq_len, dataset, sos_token, eos_token, pad_token, item, masks, qkv, attn, build, pos, mha, fresh, calls>>

----------------------------------------------------------------------------
(* Bounds of the model. *)

MaxSeqLen == 5      \* seq_len ranges over 1..MaxSeqLen
MaxTokens == 2      \* a sentence has at most MaxTokens tokens
MaxSize == 5        \* causal_mask is called with sizes 1..MaxSize
MaxAttnLen == 3     \* attention is run on examples of seq_len 1..MaxAttnLen
MaxCalls == 3       \* the calls of causal_mask that are recorded
MaxDModel == 6      \* d_model ranges over 2..MaxDModel
MaxH == 4           \* h ranges over 1..MaxH
MaxN == 2           \* N ranges over 0..MaxN
MaxPosLen == 4      \* a positional-encoding table has 1..MaxPosLen positions
MaxInputLen == 5    \* a tensor handed to a forward has 1..MaxInputLen positions
MaxGetItems == 3    \* the calls of __getitem__ that are recorded
MaxBatch == 2       \* and 1..MaxBatch elements in its batch

----------------------------------------------------------------------------
(* The tokenizer collaborator: a vocabulary, each token's id its place in  *)
(* it (from 0), so that distinct tokens have distinct ids.  encode may     *)
(* yield any id of the vocabulary, the special tokens' included.           *)

Vocabulary == <<"[UNK]", "[PAD]", "[SOS]", "[EOS]">>

token_to_id(tok) == (CHOOSE i \in 1..Len(Vocabulary) : Vocabulary[i] = tok) - 1

TokenIds == 0..(Len(Vocabulary) - 1)

RECURSIVE SeqsUpTo(_, _)
SeqsUpTo(S, n) ==
    IF n = 0 THEN {<<>>}
    ELSE LET shorter == SeqsUpTo(S, n - 1)
         IN  shorter \cup {Append(s, x) : s \in {t \in shorter : Len(t) = n - 1}, x \in S}

\* What tokenizer.encode(text).ids may be for a text of the raw dataset.
TokenSeqs == SeqsUpTo(TokenIds, MaxTokens)

----------------------------------------------------------------------------
(* src/dataset.py: causal_mask *)

\* torch.triu(torch.ones((1, size, size)), diagonal=d).type(torch.int)
Triu(size, d) ==
    <<[i \in 1..size |-> [j \in 1..size |-> IF j - i >= d THEN 1 ELSE 0]]>>

\* Faulty variant: diagonal=0, which forbids the diagonal too.
causal_mask_upper(size) ==
    LET mask == Triu(size, 0)
    IN  <<[i \in 1..size |-> [j \in 1..size |-> mask[1][i][j] = 0]]>>

\* mask = torch.triu(..., diagonal=1); return mask == 0
causal_mask(size) ==
    LET mask == Triu(size, 1)
    IN  <<[i \in 1..size |-> [j \in 1..size |-> mask[1][i][j] = 0]]>>

----------------------------------------------------------------------------
(* src/dataset.py: BilingualDataset.__getitem__ *)

\* [self.pad_token] * k: an empty list when k <= 0
PadTokens(k) == [i \in 1..k |-> pad_token]

enc_num_padding_tokens(enc_input_tokens) == seq_len - Len(enc_input_tokens) - 2

\* Faulty variant: the decoder input counted as if it carried an end marker.
dec_num_padding_tokens_short(dec_input_tokens) == seq_len - Len(dec_input_tokens) - 2

dec_num_padding_tokens(dec_input_tokens) == seq_len - Len(dec_input_tokens) - 1

\* Faulty variant: only the source sentence is measured.
TooLongEncOnly(enc_input_tokens, dec_input_tokens) ==
    enc_num_padding_tokens(enc_input_tokens) < 0

\* if enc_num_padding_tokens < 0 or dec_num_padding_tokens < 0: raise ValueError
TooLong(enc_input_tokens, dec_input_tokens) ==
    \/ enc_num_padding_tokens(enc_input_tokens) < 0
    \/ dec_num_padding_tokens(dec_input_tokens) < 0

\* Faulty variant: the end marker is left out and padded over.
EncoderInputNoEos(enc_input_tokens) ==
    <<sos_token>> \o enc_input_tokens
        \o PadTokens(enc_num_padding_tokens(enc_input_tokens) + 1)

\* torch.cat([sos, tokens, eos, pad * enc_num_padding_tokens])
EncoderInput(enc_input_tokens) ==
    <<sos_token>> \o enc_input_tokens \o <<eos_token>>
        \o PadTokens(enc_num_padding_tokens(enc_input_tokens))

\* Faulty variant: the decoder input is given an end marker.
DecoderInputWithEos(dec_input_tokens) ==
    <<sos_token>> \o dec_input_tokens \o <<eos_token>>
        \o PadTokens(dec_num_padding_tokens(dec_input_tokens) - 1)

\* Faulty variant: the decoder input is not shifted right by a start marker.
DecoderInputNoSos(dec_input_tokens) ==
    dec_input_tokens \o PadTokens(dec_num_padding_tokens(dec_input_tokens) + 1)

\* torch.cat([sos, tokens, pad * dec_num_padding_tokens])
DecoderInput(dec_input_tokens) ==
    <<sos_token>> \o dec_input_tokens
        \o PadTokens(dec_num_padding_tokens(dec_input_tokens))

\* Faulty variant: the label is given the start marker instead of the end marker.
LabelWithSos(dec_input_tokens) ==
    <<sos_token>> \o dec_input_tokens
        \o PadTokens(dec_num_padding_tokens(dec_input_tokens))

\* torch.cat([tokens, eos, pad * dec_num_padding_tokens])
Label(dec_input_tokens) ==
    dec_input_tokens \o <<eos_token>>
        \o PadTokens(dec_num_padding_tokens(dec_input_tokens))

\* (x != self.pad_token) ... .int(): 1 where the id is not the pad id
NonPad(x) == [j \in 1..Len(x) |-> IF x[j] # pad_token THEN 1 ELSE 0]

\* int & bool, elementwise
BitAnd(a, b) == IF a # 0 /\ b THEN 1 ELSE 0

\* Faulty variant: the encoder mask is combined with the causal mask.
EncoderMaskCausal(encoder_input) ==
    LET p == <<NonPad(encoder_input)>>
        c == causal_mask(Len(encoder_input))
    IN  <<[i \in 1..Len(c[1]) |-> [j \in 1..Len(c[1][i]) |-> BitAnd(p[1][j], c[1][i][j])]]>>

\* (encoder_input != pad).unsqueeze(0).unsqueeze(0).int(): shape (1, 1, seq_len)
EncoderMask(encoder_input) == << <<NonPad(encoder_input)>> >>

\* Faulty variant: the padding mask is left out of decoder_mask.
DecoderMaskNoPadding(decoder_input) ==
    LET c == causal_mask(Len(decoder_input))
    IN  <<[i \in 1..Len(c[1]) |-> [j \in 1..Len(c[1][i]) |-> BitAnd(1, c[1][i][j])]]>>

\* Faulty variant: the causal mask is transposed, so that a position sees
\* itself and the later ones.
DecoderMaskTransposed(decoder_input) ==
    LET p == <<NonPad(decoder_input)>>
        c == causal_mask(Len(decoder_input))
    IN  <<[i \in 1..Len(c[1]) |-> [j \in 1..Len(c[1][i]) |-> BitAnd(p[1][j], c[1][j][i])]]>>

\* (decoder_input != pad).unsqueeze(0).int() & causal_mask(decoder_input.size(0)):
\* (1, seq_len) & (1, seq_len, seq_len); the first operand is broadcast over the rows
DecoderMask(decoder_input) ==
    LET p == <<NonPad(decoder_input)>>
        c == causal_mask(Len(decoder_input))
    IN  <<[i \in 1..Len(c[1]) |-> [j \in 1..Len(c[1][i]) |-> BitAnd(p[1][j], c[1][i][j])]]>>

NoItem ==
    [status |-> "none", idx |-> 0, encoder_input |-> <<>>, decoder_input |-> <<>>,
     encoder_mask |-> <<>>, decoder_mask |-> <<>>, label |-> <<>>]

\* What dataset[idx] evaluates to: an example, or the exception raised.
getitem(idx) ==
    LET enc_input_tokens == dataset[idx].src
        dec_input_tokens == dataset[idx].tgt
        encoder_input == EncoderInput(enc_input_tokens)
        decoder_input == DecoderInput(dec_input_tokens)
        label == Label(dec_input_tokens)
    IN  IF TooLong(enc_input_tokens, dec_input_tokens)
        THEN [NoItem EXCEPT !.status = "ValueError", !.idx = idx]
        ELSE IF \/ Len(encoder_input) # seq_len
                \/ Len(decoder_input) # seq_len
                \/ Len(label) # seq_len
        THEN [NoItem EXCEPT !.status = "AssertionError", !.idx = idx]
        ELSE [status |-> "ok", idx |-> idx,
              encoder_input |-> encoder_input,
              decoder_input |-> decoder_input,
              encoder_mask |-> EncoderMask(encoder_input),
              decoder_mask |-> DecoderMask(decoder_input),
              label |-> label]

\* The history of a call: the index, the outcome, and the fields it left.
Record(idx, result, fields) ==
    IF Len(calls) < MaxGetItems
    THEN Append(calls, [idx |-> idx, result |-> result, fields |-> fields])
    ELSE calls

\* A faulty __getitem__ that widens self.seq_len to fit the sentence pair it
\* has just been given.
GetItemWidens(idx) ==
    LET need_src == Len(dataset[idx].src) + 2
        need_tgt == Len(dataset[idx].tgt) + 1
        need == IF need_src > need_tgt THEN need_src ELSE need_tgt
    IN  /\ item' = getitem(idx)
        /\ seq_len' = IF need > seq_len THEN need ELSE seq_len
        /\ UNCHANGED <<dataset, sos_token, eos_token, pad_token>>
        /\ calls' = Record(idx, item', adapter')
        /\ UNCHANGED <<masks, qkv, attn, build, pos, mha, fresh>>

\* __getitem__ reads self.dataset, self.seq_len and the three special tokens,
\* builds new tensors and assigns to no attribute of self.
GetItem(idx) ==
    /\ item' = getitem(idx)
    /\ UNCHANGED adapter
    /\ calls' = Record(idx, item', adapter')
    /\ UNCHANGED <<masks, qkv, attn, build, pos, mha, fresh>>

----------------------------------------------------------------------------
(* The dataset adapter: construction, then any sequence of __getitem__.    *)

NoQkv == [query |-> <<>>, key |-> <<>>, value |-> <<>>]
NoAttn == [status |-> "none"]
NoBuild ==
    [pc |-> "idle", fn |-> "none", d_model |-> 0, h |-> 0, N |-> 0,
     encoder_blocks |-> 0, decoder_blocks |-> 0, error |-> "none"]

\* BilingualDataset.__init__
NoPos ==
    [status |-> "none", d_model |-> 0, seq_len |-> 0, pe |-> <<>>, x |-> <<>>, out |-> <<>>]
NoMha ==
    [status |-> "none", d_model |-> 0, h |-> 0, d_k |-> 0,
     q |-> <<>>, k |-> <<>>, v |-> <<>>, mask |-> <<>>, heads |-> <<>>, out |-> <<>>]

\* The adapter as __init__ leaves it, and the example each index yields from it.
Fresh ==
    [fields |-> adapter,
     examples |-> [idx \in 1..Len(dataset) |-> getitem(idx)]]

InitAdapter(sources, targets) ==
    /\ seq_len \in 1..MaxSeqLen
    /\ dataset \in {<<[src |-> s, tgt |-> t]>> : s \in sources, t \in targets}
    /\ sos_token = token_to_id("[SOS]")
    /\ eos_token = token_to_id("[EOS]")
    /\ pad_token = token_to_id("[PAD]")
    /\ item = NoItem

Init ==
    /\ InitAdapter(TokenSeqs, TokenSeqs)
    /\ masks = <<>>
    /\ qkv = NoQkv
    /\ attn = NoAttn
    /\ build = NoBuild
    /\ pos = NoPos
    /\ mha = NoMha
    /\ fresh = Fresh
    /\ calls = <<>>

Next == \E idx \in 1..Len(dataset) : GetItem(idx)

Spec == Init /\ [][Next]_vars

\* Several indices: a dataset of two sentence pairs, whose sentences differ
\* in length only, and any sequence of calls of __getitem__ on it.
Sentences == SeqsUpTo({token_to_id("[UNK]")}, MaxTokens)

InitCalls ==
    /\ seq_len \in 1..MaxSeqLen
    /\ dataset \in {<<[src |-> s1, tgt |-> t1], [src |-> s2, tgt |-> t2]>> :
                        s1 \in Sentences, t1 \in Sentences,
                        s2 \in Sentences, t2 \in Sentences}
    /\ sos_token = token_to_id("[SOS]")
    /\ eos_token = token_to_id("[EOS]")
    /\ pad_token = token_to_id("[PAD]")
    /\ item = NoItem
    /\ masks = <<>>
    /\ qkv = NoQkv
    /\ attn = NoAttn
    /\ build = NoBuild
    /\ pos = NoPos
    /\ mha = NoMha
    /\ fresh = Fresh
    /\ calls = <<>>

NextCalls == \E idx \in 1..Len(dataset) : GetItem(idx)

SpecCalls == InitCalls /\ [][NextCalls]_vars

----------------------------------------------------------------------------
(* src/model.py: MultiHeadAttentionBlock.attention, for one element of the *)
(* batch and one head, with d_k = 1: query, key and value are sequences of *)
(* integers, and query @ key^T / sqrt(d_k) is the matrix of the products.  *)
(* A softmax weight is a fraction: a numerator per entry over the row's    *)
(* denominator.                                                            *)

\* The entries of query and key, and of value.  The weights do not depend on
\* value, which is given one entry to keep the state space small.
QKVals == {-1, 1}
VVals == {1}

\* masked_fill_(mask == 0, -1e9)
NegFill == -1000000000

\* exp(d) in float32 is 0 for d below -ExpUnderflow (e^-104 is less than half
\* the least positive float32), and positive above.
ExpUnderflow == 104

\* exp(-k) in thousandths, k = 0, 1, ...
ExpTable == <<1000, 368, 135, 50, 18, 7, 2>>

\* exp(d) for d <= 0, in thousandths; a positive value below the table's
\* resolution is one unit.
Exp(d) ==
    IF d < -ExpUnderflow THEN 0
    ELSE IF -d + 1 > Len(ExpTable) THEN 1
    ELSE ExpTable[-d + 1]

RECURSIVE SumSeq(_)
SumSeq(s) == IF s = <<>> THEN 0 ELSE Head(s) + SumSeq(Tail(s))

MaxOf(s) == CHOOSE x \in {s[j] : j \in 1..Len(s)} : \A j \in 1..Len(s) : s[j] <= x

\* The entry of mask that torch's broadcasting pairs with attention_scores[i][j]:
\* a mask of one row, (1, 1, seq_len), serves every query position.
MaskAt(mask, i, j) == mask[1][IF Len(mask[1]) = 1 THEN 1 ELSE i][j]

\* attention_scores = (query @ key.transpose(-2, -1)) / math.sqrt(d_k)
RawScores(query, key) ==
    [i \in 1..Len(query) |-> [j \in 1..Len(key) |-> query[i] * key[j]]]

\* Faulty variant: the allowed positions are the ones filled.
MaskedFillOnes(scores, mask) ==
    IF mask = "None" THEN scores
    ELSE [i \in 1..Len(scores) |-> [j \in 1..Len(scores[i]) |->
              IF MaskAt(mask, i, j) = 1 THEN NegFill ELSE scores[i][j]]]

\* if mask is not None: attention_scores.masked_fill_(mask == 0, -1e9)
MaskedFill(scores, mask) ==
    IF mask = "None" THEN scores
    ELSE [i \in 1..Len(scores) |-> [j \in 1..Len(scores[i]) |->
              IF MaskAt(mask, i, j) = 0 THEN NegFill ELSE scores[i][j]]]

\* attention_scores.softmax(dim=-1): per row, exp(x - max) over the sum
Softmax(scores) ==
    [i \in 1..Len(scores) |->
        LET e == [j \in 1..Len(scores[i]) |-> Exp(scores[i][j] - MaxOf(scores[i]))]
        IN  [num |-> e, den |-> SumSeq(e)]]

\* attention_scores @ value: per query row, the numerator of the weighted sum
WeightedSum(weights, value) ==
    [i \in 1..Len(weights) |->
        SumSeq([j \in 1..Len(value) |-> weights[i].num[j] * value[j]])]

\* attention(query, key, value, mask, None): the two values returned (x, the
\* weighted values, and attention_scores, the weights), with the mask given
\* and the scores as they were handed to softmax
attention(query, key, value, mask) ==
    LET filled == MaskedFill(RawScores(query, key), mask)
        attention_scores == Softmax(filled)
    IN  [mask |-> mask, filled |-> filled,
         attention_scores |-> attention_scores,
         x |-> WeightedSum(attention_scores, value)]

\* What attn holds after a call: who called, and what attention returned.
Returned(site, r) ==
    [status |-> "ok", site |-> site, mask |-> r.mask, filled |-> r.filled,
     attention_scores |-> r.attention_scores, x |-> r.x]

VecsOf(S, n) == {s \in SeqsUpTo(S, n) : Len(s) = n}

\* DecoderBlock.forward: self_attention_block(x, x, x, tgt_mask), the mask the
\* decoder_mask of a returned example.
DecoderSelfAttention ==
    /\ item.status = "ok"
    /\ attn' = Returned("DecoderBlock",
                        attention(qkv.query, qkv.key, qkv.value, item.decoder_mask))
    /\ UNCHANGED <<adapter, item, masks, qkv, build, pos, mha, fresh, calls>>

\* EncoderBlock.forward: self_attention_block(x, x, x, src_mask), the mask the
\* encoder_mask of a returned example.
EncoderSelfAttention ==
    /\ item.status = "ok"
    /\ attn' = Returned("EncoderBlock",
                        attention(qkv.query, qkv.key, qkv.value, item.encoder_mask))
    /\ UNCHANGED <<adapter, item, masks, qkv, build, pos, mha, fresh, calls>>

\* attention without a mask
UnmaskedAttention ==
    /\ item.status = "ok"
    /\ attn' = Returned("none", attention(qkv.query, qkv.key, qkv.value, "None"))
    /\ UNCHANGED <<adapter, item, masks, qkv, build, pos, mha, fresh, calls>>

\* The sentences of the examples attention is run on: ordinary and pad ids.
AttnSources == SeqsUpTo({token_to_id("[UNK]"), token_to_id("[PAD]")}, 1)
AttnTargets == SeqsUpTo({token_to_id("[UNK]"), token_to_id("[PAD]")}, MaxTokens)

\* An adapter whose example fits, and tensors of its seq_len to attend over.
InitAttn ==
    /\ InitAdapter(AttnSources, AttnTargets)
    /\ seq_len <= MaxAttnLen
    /\ ~TooLong(dataset[1].src, dataset[1].tgt)
    /\ qkv \in {[query |-> q, key |-> k, value |-> v] :
                   q \in VecsOf(QKVals, seq_len), k \in VecsOf(QKVals, seq_len),
                   v \in VecsOf(VVals, seq_len)}
    /\ masks = <<>>
    /\ attn = NoAttn
    /\ build = NoBuild
    /\ pos = NoPos
    /\ mha = NoMha
    /\ fresh = Fresh
    /\ calls = <<>>

NextAttn ==
    \/ \E idx \in 1..Len(dataset) : GetItem(idx)
    \/ DecoderSelfAttention
    \/ EncoderSelfAttention
    \/ UnmaskedAttention

SpecAttn == InitAttn /\ [][NextAttn]_vars

----------------------------------------------------------------------------
(* causal_mask as a function of its own: any calls, each recorded. *)

CausalMask(size) ==
    /\ Len(masks) < MaxCalls
    /\ masks' = Append(masks, [size |-> size, mask |-> causal_mask(size)])
    /\ UNCHANGED <<adapter, item, qkv, attn, build, pos, mha, fresh, calls>>

InitMask ==
    /\ seq_len = 1
    /\ dataset = <<>>
    /\ sos_token = token_to_id("[SOS]")
    /\ eos_token = token_to_id("[EOS]")
    /\ pad_token = token_to_id("[PAD]")
    /\ item = NoItem
    /\ masks = <<>>
    /\ qkv = NoQkv
    /\ attn = NoAttn
    /\ build = NoBuild
    /\ pos = NoPos
    /\ mha = NoMha
    /\ fresh = Fresh
    /\ calls = <<>>

NextMask == \E size \in 1..MaxSize : CausalMask(size)

SpecMask == InitMask /\ [][NextMask]_vars

----------------------------------------------------------------------------
(* src/model.py: the construction of MultiHeadAttentionBlock and           *)
(* build_transformer, statement by statement.                              *)

\* Faulty variant: the divisibility of d_model is not checked.
DivisibleUnchecked(d_model, h) == TRUE

\* assert d_model % h == 0, "d_model is not divisible by h"
Divisible(d_model, h) == d_model % h = 0

\* PositionalEncoding.__init__: pe[:, 0::2] has ceil(d_model / 2) columns, as
\* div_term has entries, and pe[:, 1::2] floor(d_model / 2): the assignment of
\* the cosines to it fails for an odd d_model of 3 or more.
PositionalEncodingFits(d_model) ==
    LET div_term == (d_model + 1) \div 2
        odd_columns == d_model \div 2
    IN  div_term = odd_columns \/ (div_term = 1 /\ odd_columns = 0)

Raise(error) == build' = [build EXCEPT !.pc = "raised", !.error = error]

\* MultiHeadAttentionBlock(d_model, h, dropout)
Construct_MultiHeadAttentionBlock(d_model, h) ==
    /\ build.pc = "idle"
    /\ build' = [NoBuild EXCEPT !.fn = "MultiHeadAttentionBlock",
                                !.d_model = d_model, !.h = h,
                                !.pc = IF Divisible(d_model, h) THEN "returned" ELSE "raised",
                                !.error = IF Divisible(d_model, h) THEN "none"
                                          ELSE "AssertionError"]
    /\ UNCHANGED <<adapter, item, masks, qkv, attn, pos, mha, fresh, calls>>

\* build_transformer(..., d_model, N, h, ...) is entered
Call_build_transformer(d_model, h, N) ==
    /\ build.pc = "idle"
    /\ build' = [NoBuild EXCEPT !.fn = "build_transformer", !.d_model = d_model,
                                !.h = h, !.N = N, !.pc = "embeddings"]
    /\ UNCHANGED <<adapter, item, masks, qkv, attn, pos, mha, fresh, calls>>

\* src_embed, tgt_embed = InputEmbeddings(...)
Embeddings ==
    /\ build.pc = "embeddings"
    /\ build' = [build EXCEPT !.pc = "positional"]
    /\ UNCHANGED <<adapter, item, masks, qkv, attn, pos, mha, fresh, calls>>

\* src_pos, tgt_pos = PositionalEncoding(...)
PositionalEncodings ==
    /\ build.pc = "positional"
    /\ IF PositionalEncodingFits(build.d_model)
       THEN build' = [build EXCEPT !.pc = "encoder_blocks"]
       ELSE Raise("RuntimeError")
    /\ UNCHANGED <<adapter, item, masks, qkv, attn, pos, mha, fresh, calls>>

\* for _ in range(N): one pass of the loop that creates the encoder blocks
EncoderBlockLoop ==
    /\ build.pc = "encoder_blocks"
    /\ IF build.encoder_blocks = build.N
       THEN build' = [build EXCEPT !.pc = "decoder_blocks"]
       ELSE IF Divisible(build.d_model, build.h)
       THEN build' = [build EXCEPT !.encoder_blocks = @ + 1]
       ELSE Raise("AssertionError")
    /\ UNCHANGED <<adapter, item, masks, qkv, attn, pos, mha, fresh, calls>>

\* for _ in range(N): one pass of the loop that creates the decoder blocks,
\* each with a self-attention and a cross-attention block
DecoderBlockLoop ==
    /\ build.pc = "decoder_blocks"
    /\ IF build.decoder_blocks = build.N
       THEN build' = [build EXCEPT !.pc = "assemble"]
       ELSE IF Divisible(build.d_model, build.h)
       THEN build' = [build EXCEPT !.decoder_blocks = @ + 1]
       ELSE Raise("AssertionError")
    /\ UNCHANGED <<adapter, item, masks, qkv, attn, pos, mha, fresh, calls>>

\* Encoder, Decoder, ProjectionLayer, Transformer, xavier_uniform_; return
Assemble ==
    /\ build.pc = "assemble"
    /\ build' = [build EXCEPT !.pc = "returned"]
    /\ UNCHANGED <<adapter, item, masks, qkv, attn, pos, mha, fresh, calls>>

InitBuild ==
    /\ seq_len = 1
    /\ dataset = <<>>
    /\ sos_token = token_to_id("[SOS]")
    /\ eos_token = token_to_id("[EOS]")
    /\ pad_token = token_to_id("[PAD]")
    /\ item = NoItem
    /\ masks = <<>>
    /\ qkv = NoQkv
    /\ attn = NoAttn
    /\ build = NoBuild
    /\ pos = NoPos
    /\ mha = NoMha
    /\ fresh = Fresh
    /\ calls = <<>>

NextBuild ==
    \/ \E d_model \in 2..MaxDModel, h \in 1..MaxH :
           Construct_MultiHeadAttentionBlock(d_model, h)
    \/ \E d_model \in 2..MaxDModel, h \in 1..MaxH, N \in 0..MaxN :
           Call_build_transformer(d_model, h, N)
    \/ Embeddings
    \/ PositionalEncodings
    \/ EncoderBlockLoop
    \/ DecoderBlockLoop
    \/ Assemble

SpecBuild == InitBuild /\ [][NextBuild]_vars

----------------------------------------------------------------------------
(* Shapes.  A tensor of src/model.py is modelled by its shape, a sequence  *)
(* of sizes, where only shapes decide what a forward returns or raises.    *)

Max2(a, b) == IF a >= b THEN a ELSE b
Min2(a, b) == IF a <= b THEN a ELSE b

\* The size at place i of the shape s once it is right-aligned to rank n;
\* a missing leading dimension counts as 1.
Aligned(s, n, i) == IF i <= n - Len(s) THEN 1 ELSE s[i - (n - Len(s))]

\* torch's broadcasting of two shapes: sizes must agree or one of them be 1.
Broadcastable(a, b) ==
    LET n == Max2(Len(a), Len(b))
    IN  \A i \in 1..n :
            \/ Aligned(a, n, i) = Aligned(b, n, i)
            \/ Aligned(a, n, i) = 1
            \/ Aligned(b, n, i) = 1

BroadcastShape(a, b) ==
    LET n == Max2(Len(a), Len(b))
    IN  [i \in 1..n |-> IF Aligned(a, n, i) = 1 THEN Aligned(b, n, i) ELSE Aligned(a, n, i)]

----------------------------------------------------------------------------
(* src/model.py: PositionalEncoding *)

\* self.pe[:, :n, :]: a slice stops at the end of the table
PeSlice(pe, n) == <<pe[1], Min2(n, pe[2]), pe[3]>>

\* PositionalEncoding(d_model, seq_len, dropout): pe has shape (1, seq_len, d_model)
Construct_PositionalEncoding(d_model, max_len) ==
    /\ pos.status = "none"
    /\ PositionalEncodingFits(d_model)
    /\ pos' = [NoPos EXCEPT !.status = "constructed", !.d_model = d_model,
                            !.seq_len = max_len, !.pe = <<1, max_len, d_model>>]
    /\ UNCHANGED <<adapter, item, masks, qkv, attn, build, mha, fresh, calls>>

\* forward(x): x = x + self.pe[:, :x.shape[1], :]; return self.dropout(x)
PositionalEncoding_forward(batch, len) ==
    /\ pos.status # "none"
    /\ LET x == <<batch, len, pos.d_model>>
           sliced == PeSlice(pos.pe, x[2])
       IN  pos' = IF Broadcastable(x, sliced)
                  THEN [pos EXCEPT !.status = "returned", !.x = x,
                                   !.out = BroadcastShape(x, sliced)]
                  ELSE [pos EXCEPT !.status = "RuntimeError", !.x = x, !.out = <<>>]
    /\ UNCHANGED <<adapter, item, masks, qkv, attn, build, mha, fresh, calls>>

InitPos ==
    /\ seq_len = 1
    /\ dataset = <<>>
    /\ sos_token = token_to_id("[SOS]")
    /\ eos_token = token_to_id("[EOS]")
    /\ pad_token = token_to_id("[PAD]")
    /\ item = NoItem
    /\ masks = <<>>
    /\ qkv = NoQkv
    /\ attn = NoAttn
    /\ build = NoBuild
    /\ pos = NoPos
    /\ mha = NoMha
    /\ fresh = Fresh
    /\ calls = <<>>

NextPos ==
    \/ \E d_model \in 2..MaxDModel, max_len \in 1..MaxPosLen :
           Construct_PositionalEncoding(d_model, max_len)
    \/ \E batch \in 1..MaxBatch, len \in 1..MaxInputLen :
           PositionalEncoding_forward(batch, len)

SpecPos == InitPos /\ [][NextPos]_vars

----------------------------------------------------------------------------
(* src/model.py: MultiHeadAttentionBlock.forward, by shapes.  A step that  *)
(* torch would refuse yields the shape <<>>, and so does every step after. *)

\* nn.Linear(n_in, n_out): the last size must be n_in, and becomes n_out
Linear(x, n_in, n_out) ==
    IF x # <<>> /\ x[Len(x)] = n_in THEN [x EXCEPT ![Len(x)] = n_out] ELSE <<>>

\* x.view(x.shape[0], x.shape[1], h, d_k).transpose(1, 2): the view needs
\* as many elements as x has
SplitHeads(x, h, d_k) ==
    IF x # <<>> /\ x[3] = h * d_k THEN <<x[1], h, x[2], d_k>> ELSE <<>>

\* query @ key.transpose(-2, -1): (batch, h, len_q, d_k) @ (batch, h, d_k, len_k)
ScoresShape(query, key) ==
    IF /\ query # <<>> /\ key # <<>>
       /\ query[1] = key[1] /\ query[2] = key[2] /\ query[4] = key[4]
    THEN <<query[1], query[2], query[3], key[3]>>
    ELSE <<>>

\* masked_fill_(mask == 0, -1e9) works in place: the mask must broadcast to
\* the shape of the scores.  The mask None is written <<>>.
MaskedFillShape(scores, mask) ==
    IF mask = <<>> THEN scores
    ELSE IF scores # <<>> /\ Broadcastable(scores, mask)
                          /\ BroadcastShape(scores, mask) = scores
    THEN scores
    ELSE <<>>

\* attention_scores @ value: (batch, h, len_q, len_k) @ (batch, h, len_k, d_k)
WeightedShape(scores, value) ==
    IF /\ scores # <<>> /\ value # <<>>
       /\ scores[1] = value[1] /\ scores[2] = value[2] /\ scores[4] = value[3]
    THEN <<scores[1], scores[2], scores[3], value[4]>>
    ELSE <<>>

\* Faulty variant: the heads are viewed back without the transpose and the
\* last size is d_k, not h * d_k.
CombineHeadsPerHead(x, h, d_k) ==
    IF x = <<>> THEN <<>> ELSE <<x[1], x[2] * x[3], d_k>>

\* x.transpose(1, 2).contiguous().view(x.shape[0], -1, h * d_k): the size
\* written -1 is what is left of the elements
CombineHeads(x, h, d_k) ==
    IF x = <<>> THEN <<>>
    ELSE LET t == <<x[1], x[3], x[2], x[4]>>
             numel == t[1] * t[2] * t[3] * t[4]
         IN  IF numel % (t[1] * h * d_k) = 0
             THEN <<t[1], numel \div (t[1] * h * d_k), h * d_k>>
             ELSE <<>>

\* forward(q, k, v, mask): the shape of the heads of the query, and of the
\* tensor returned
forward(q, k, v, mask) ==
    LET query == SplitHeads(Linear(q, mha.d_model, mha.d_model), mha.h, mha.d_k)
        key == SplitHeads(Linear(k, mha.d_model, mha.d_model), mha.h, mha.d_k)
        value == SplitHeads(Linear(v, mha.d_model, mha.d_model), mha.h, mha.d_k)
        scores == MaskedFillShape(ScoresShape(query, key), mask)
        x == CombineHeads(WeightedShape(scores, value), mha.h, mha.d_k)
    IN  [heads |-> query, out |-> Linear(x, mha.d_model, mha.d_model)]

\* MultiHeadAttentionBlock(d_model, h, dropout), for the forward passes
New_MultiHeadAttentionBlock(d_model, h) ==
    /\ mha.status = "none"
    /\ mha' = IF Divisible(d_model, h)
              THEN [NoMha EXCEPT !.status = "constructed", !.d_model = d_model,
                                 !.h = h, !.d_k = d_model \div h]
              ELSE [NoMha EXCEPT !.status = "AssertionError", !.d_model = d_model, !.h = h]
    /\ UNCHANGED <<adapter, item, masks, qkv, attn, build, pos, fresh, calls>>

MultiHeadAttentionBlock_forward(q, k, v, mask) ==
    /\ mha.status \in {"constructed", "returned", "RuntimeError"}
    /\ LET r == forward(q, k, v, mask)
       IN  mha' = [mha EXCEPT !.status = IF r.out = <<>> THEN "RuntimeError" ELSE "returned",
                              !.q = q, !.k = k, !.v = v, !.mask = mask,
                              !.heads = r.heads, !.out = r.out]
    /\ UNCHANGED <<adapter, item, masks, qkv, attn, build, pos, fresh, calls>>

\* Self-attention: query, key and value are one tensor; the mask is None, a
\* source mask (batch, 1, 1, len) or a target mask (batch, 1, len, len).
SelfAttentionForward ==
    \E batch \in 1..MaxBatch, len \in 1..MaxAttnLen :
        \E mask \in {<<>>, <<batch, 1, 1, len>>, <<batch, 1, len, len>>} :
            LET x == <<batch, len, mha.d_model>>
            IN  MultiHeadAttentionBlock_forward(x, x, x, mask)

\* Cross-attention: the query is the decoder's tensor, key and value the
\* encoder's output; the mask is None or the source mask (batch, 1, 1, len_k).
CrossAttentionForward ==
    \E batch \in 1..MaxBatch, len_q \in 1..MaxAttnLen, len_k \in 1..MaxAttnLen :
        \E mask \in {<<>>, <<batch, 1, 1, len_k>>} :
            LET x == <<batch, len_q, mha.d_model>>
                encoder_output == <<batch, len_k, mha.d_model>>
            IN  MultiHeadAttentionBlock_forward(x, encoder_output, encoder_output, mask)

InitForward == InitPos

NextForward ==
    \/ \E d_model \in 2..MaxDModel, h \in 1..MaxH : New_MultiHeadAttentionBlock(d_model, h)
    \/ SelfAttentionForward
    \/ CrossAttentionForward

SpecForward == InitForward /\ [][NextForward]_vars

----------------------------------------------------------------------------
(* Properties of the dataset adapter, checked under Spec. *)

\* The source and target token counts of the row the last __getitem__ read.
SourceTokens == dataset[item.idx].src
TargetTokens == dataset[item.idx].tgt

Called == item.status # "none"

Fits == /\ Len(SourceTokens) + 2 <= seq_len
        /\ Len(TargetTokens) + 1 <= seq_len

\* C1: for every index whose token counts satisfy n + 2 <= seq_len and
\* m + 1 <= seq_len, __getitem__ returns an example whose encoder_input,
\* decoder_input and label each have length exactly seq_len; none of the
\* three length assertions fails.
C1_LengthsAreSeqLen ==
    (Called /\ Fits) =>
        /\ item.status = "ok"
        /\ Len(item.encoder_input) = seq_len
        /\ Len(item.decoder_input) = seq_len
        /\ Len(item.label) = seq_len

C1_Witness ==
    /\ item.status = "ok"
    /\ Len(TargetTokens) + 1 = seq_len
    /\ Len(SourceTokens) + 2 < seq_len
    /\ Len(item.label) = seq_len

\* C2: __getitem__ raises ValueError exactly when source_tokens + 2 > seq_len
\* or target_tokens + 1 > seq_len; then no example and no sequence, truncated
\* or not, is returned; in every other case an example is returned.
C2_ValueErrorIffTooLong ==
    Called =>
        /\ item.status = "ValueError" <=>
               (Len(SourceTokens) + 2 > seq_len \/ Len(TargetTokens) + 1 > seq_len)
        /\ item.status = "ValueError" =>
               /\ item.encoder_input = <<>>
               /\ item.decoder_input = <<>>
               /\ item.label = <<>>
        /\ item.status # "ValueError" =>
               /\ item.status = "ok"
               /\ SubSeq(item.encoder_input, 2, Len(SourceTokens) + 1) = SourceTokens
               /\ SubSeq(item.decoder_input, 2, Len(TargetTokens) + 1) = TargetTokens
               /\ SubSeq(item.label, 1, Len(TargetTokens)) = TargetTokens

C2_Witness ==
    /\ item.status = "ValueError"
    /\ Len(SourceTokens) + 2 <= seq_len
    /\ Len(TargetTokens) + 1 > seq_len

\* C3: in every returned example decoder_mask is the target padding mask
\* AND the causal mask: key j is allowed for query i iff j <= i and
\* decoder_input[j] is not the PAD id.
C3_DecoderMaskIsPaddingAndCausal ==
    item.status = "ok" =>
        /\ Len(item.decoder_mask) = 1
        /\ Len(item.decoder_mask[1]) = seq_len
        /\ \A i \in 1..seq_len :
               /\ Len(item.decoder_mask[1][i]) = seq_len
               /\ \A j \in 1..seq_len :
                      (item.decoder_mask[1][i][j] # 0) <=>
                          (j <= i /\ item.decoder_input[j] # pad_token)

C3_Witness ==
    /\ item.status = "ok"
    /\ seq_len >= 3
    /\ \E i, j \in 1..seq_len :
           j < i /\ item.decoder_input[j] = pad_token /\ item.decoder_mask[1][i][j] = 0
    /\ \E i, j \in 1..seq_len : j > i /\ item.decoder_input[j] # pad_token
    /\ \E i, j \in 1..seq_len : j < i /\ item.decoder_mask[1][i][j] = 1

\* C5: for an example that fits, encoder_input is SOS, the n source tokens in
\* order, EOS at position n + 1, then PAD at every later position, which are
\* seq_len - n - 2 positions.
C5_EncoderInputLayout ==
    item.status = "ok" =>
        LET n == Len(SourceTokens)
        IN  /\ item.encoder_input[1] = sos_token
            /\ \A k \in 1..n : item.encoder_input[k + 1] = SourceTokens[k]
            /\ item.encoder_input[n + 2] = eos_token
            /\ \A p \in (n + 3)..Len(item.encoder_input) : item.encoder_input[p] = pad_token
            /\ Len(item.encoder_input) - (n + 2) = seq_len - n - 2

C5_Witness ==
    /\ item.status = "ok"
    /\ Len(SourceTokens) = 2
    /\ SourceTokens[1] # SourceTokens[2]
    /\ item.encoder_input[seq_len] = pad_token
    /\ item.encoder_input[seq_len - 1] = eos_token

NoEosInTarget == \A k \in 1..Len(TargetTokens) : TargetTokens[k] # eos_token
NoSosInTarget == \A k \in 1..Len(TargetTokens) : TargetTokens[k] # sos_token

\* C6: for an example that fits and a target encoding without the EOS id,
\* decoder_input is SOS, the m target tokens in order, then only PAD up to
\* seq_len, and holds EOS nowhere.
C6_DecoderInputLayout ==
    (item.status = "ok" /\ NoEosInTarget) =>
        LET m == Len(TargetTokens)
        IN  /\ item.decoder_input[1] = sos_token
            /\ \A k \in 1..m : item.decoder_input[k + 1] = TargetTokens[k]
            /\ \A p \in (m + 2)..Len(item.decoder_input) : item.decoder_input[p] = pad_token
            /\ Len(item.decoder_input) = seq_len
            /\ \A p \in 1..Len(item.decoder_input) : item.decoder_input[p] # eos_token

C6_Witness ==
    /\ item.status = "ok"
    /\ NoEosInTarget
    /\ Len(TargetTokens) = 2
    /\ TargetTokens[1] # TargetTokens[2]
    /\ item.decoder_input[seq_len] = pad_token

\* C7: for an example that fits and a target encoding without the SOS id,
\* label is the m target tokens in order, EOS at position m, then only PAD up
\* to seq_len; its first entry is not SOS.
C7_LabelLayout ==
    (item.status = "ok" /\ NoSosInTarget) =>
        LET m == Len(TargetTokens)
        IN  /\ \A k \in 1..m : item.label[k] = TargetTokens[k]
            /\ item.label[m + 1] = eos_token
            /\ \A p \in (m + 2)..Len(item.label) : item.label[p] = pad_token
            /\ Len(item.label) = seq_len
            /\ item.label[1] # sos_token

C7_Witness ==
    /\ item.status = "ok"
    /\ NoSosInTarget
    /\ Len(TargetTokens) = 2
    /\ TargetTokens[1] # TargetTokens[2]
    /\ item.label[3] = eos_token
    /\ item.label[seq_len] = pad_token

----------------------------------------------------------------------------
(* Properties of causal_mask, checked under SpecMask. *)

----------------------------------------------------------------------------
(* Properties of the masks in attention, checked under SpecAttn. *)

\* C8: encoder_mask has shape (1, 1, seq_len), its entry j allowed iff
\* encoder_input[j] is not the PAD id; in encoder self-attention that entry
\* serves every query position: a score is replaced iff its key position
\* holds PAD, whether the key lies before or after the query.
C8_EncoderMaskIsPaddingOnly ==
    /\ item.status = "ok" =>
           /\ Len(item.encoder_mask) = 1
           /\ Len(item.encoder_mask[1]) = 1
           /\ Len(item.encoder_mask[1][1]) = seq_len
           /\ \A j \in 1..seq_len :
                  (item.encoder_mask[1][1][j] # 0) <=> (item.encoder_input[j] # pad_token)
    /\ (attn.status = "ok" /\ attn.site = "EncoderBlock") =>
           \A i, j \in 1..seq_len :
               /\ (attn.filled[i][j] = NegFill) <=> (item.encoder_input[j] = pad_token)
               /\ (attn.attention_scores[i].num[j] > 0) <=> (item.encoder_input[j] # pad_token)

C8_Witness ==
    /\ attn.status = "ok"
    /\ attn.site = "EncoderBlock"
    /\ seq_len = 3
    /\ item.encoder_input[2] = pad_token
    /\ attn.attention_scores[1].num[3] > 0
    /\ attn.attention_scores[3].num[2] = 0

\* The positions of row i that the mask of the last attention allows.
Allowed(i) == {j \in 1..Len(attn.filled[i]) : MaskAt(attn.mask, i, j) # 0}

RECURSIVE SumOver(_, _)
SumOver(f, S) ==
    IF S = {} THEN 0
    ELSE LET j == CHOOSE k \in S : TRUE IN f[j] + SumOver(f, S \ {j})

----------------------------------------------------------------------------
(* Properties of construction, checked under SpecBuild. *)

NotDivisible == build.pc # "idle" /\ build.d_model % build.h # 0

----------------------------------------------------------------------------
(* Properties of PositionalEncoding.forward, checked under SpecPos. *)

Forwarded == pos.status \in {"returned", "RuntimeError", "IndexError"}

\* C11: whenever PositionalEncoding.forward receives an input longer than
\* the table, the call fails and returns no output, for every table length
\* >= 1 and every longer input.  (Any error raised counts as failing here,
\* whatever its type.)
C11_LongerInputFails ==
    (Forwarded /\ pos.x[2] > pos.seq_len) =>
        /\ pos.status # "returned"
        /\ pos.out = <<>>

\* What the code does instead: it fails, with a shape error, iff the table
\* has 2 or more positions; over a table of one position the slice is
\* broadcast and an output of the input's shape is returned.
C11_LongerInputFailsIffTableLongerThanOne ==
    (Forwarded /\ pos.x[2] > pos.seq_len) =>
        /\ pos.status # "IndexError"
        /\ pos.seq_len >= 2 => (pos.status = "RuntimeError" /\ pos.out = <<>>)
        /\ pos.seq_len = 1 => (pos.status = "returned" /\ pos.out = pos.x)

----------------------------------------------------------------------------
(* Properties of MultiHeadAttentionBlock.forward, checked under SpecForward. *)

\* C12: for all d_model and h with d_model % h = 0, all batch sizes and all
\* query and key/value lengths, equal or not, forward returns a tensor of
\* the query's shape (batch, query_len, d_model): the query is split into h
\* heads of size d_model / h and the concatenation restores its shape.
C12_OutputShapeIsQueryShape ==
    mha.status \in {"returned", "RuntimeError"} =>
        /\ mha.d_model % mha.h = 0
        /\ mha.status = "returned"
        /\ mha.heads = <<mha.q[1], mha.h, mha.q[2], mha.d_model \div mha.h>>
        /\ mha.out = mha.q
        /\ mha.out = <<mha.q[1], mha.q[2], mha.d_model>>

C12_Witness ==
    /\ mha.status = "returned"
    /\ mha.h = 3
    /\ mha.d_model = 6
    /\ mha.q[1] = 2
    /\ mha.q[2] = 3
    /\ mha.k[2] = 2
    /\ mha.mask = <<2, 1, 1, 2>>
    /\ mha.out = <<2, 3, 6>>

PadCount(x) == Cardinality({j \in 1..Len(x) : x[j] = pad_token})

\* C14: in every returned example label is decoder_input shifted left by one
\* over the content: label[i] = decoder_input[i + 1] for 0 <= i < m, label[m]
\* is EOS where decoder_input[m + 1], if it exists, is PAD, label[i] and
\* decoder_input[i + 1] are both PAD for m < i < seq_len - 1, and the two
\* hold the PAD id at the same number of positions.
C14_LabelIsDecoderInputShifted ==
    item.status = "ok" =>
        LET m == Len(TargetTokens)
            d == item.decoder_input
            l == item.label
        IN  /\ \A i \in 0..(m - 1) : l[i + 1] = d[i + 2]
            /\ l[m + 1] = eos_token
            /\ (m + 1 < seq_len) => d[m + 2] = pad_token
            /\ \A i \in (m + 1)..(seq_len - 2) :
                  /\ l[i + 1] = pad_token
                  /\ d[i + 2] = pad_token
            /\ PadCount(d) = PadCount(l)

\* Two target tokens, one of them the PAD id, and two positions of padding.
C14_Witness ==
    /\ item.status = "ok"
    /\ seq_len = 5
    /\ TargetTokens = <<0, pad_token>>
    /\ item.decoder_input = <<sos_token, 0, pad_token, pad_token, pad_token>>
    /\ item.label = <<0, pad_token, eos_token, pad_token, pad_token>>

\* The key positions of encoder_mask that are allowed.
EncoderAllowed == {j \in 1..seq_len : item.encoder_mask[1][1][j] # 0}

\* C15: with the SOS id other than the PAD id, every query row of a returned
\* decoder_mask, the rows of padded positions included, allows key position 0,
\* and encoder_mask allows at least two positions, those of SOS and EOS; so
\* no row handed to softmax by the encoder's or the decoder's attention has
\* all its scores replaced by -1e9.  decoder_mask[i][i] is allowed only when
\* decoder_input[i] is not PAD.
C15_NoRowIsFullyMasked ==
    sos_token # pad_token =>
        /\ item.status = "ok" =>
               /\ \A i \in 1..seq_len : item.decoder_mask[1][i][1] # 0
               /\ {1, Len(SourceTokens) + 2} \subseteq EncoderAllowed
               /\ Cardinality(EncoderAllowed) >= 2
               /\ \A i \in 1..seq_len :
                      (item.decoder_mask[1][i][i] # 0) => (item.decoder_input[i] # pad_token)
        /\ (attn.status = "ok" /\ attn.site \in {"DecoderBlock", "EncoderBlock"}) =>
               \A i \in 1..Len(attn.filled) :
                   /\ \E j \in 1..Len(attn.filled[i]) : attn.filled[i][j] # NegFill
                   /\ attn.attention_scores[i].den > 0

\* Decoder self-attention on an example whose last position is padding: the
\* padded row has its own score replaced and that of position 0 kept.
C15_Witness ==
    /\ attn.status = "ok"
    /\ attn.site = "DecoderBlock"
    /\ seq_len = 3
    /\ item.decoder_input[3] = pad_token
    /\ item.decoder_mask[1][3][3] = 0
    /\ attn.filled[3][3] = NegFill
    /\ attn.filled[3][1] # NegFill

====
